---- MODULE Spec2Model ----
(***************************************************************************)
(* Model of src/common/dns_utils.cpp: the DNSSEC-aware TXT resolution,     *)
(* the OpenAlias address extraction, the per-identifier address lookup and *)
(* the multi-source quorum of load_txt_records_from_dns.                   *)
(*                                                                         *)
(* A std::string is a sequence of one-character strings; positions are     *)
(* 0-based as in the source, and npos is -1.  A std::vector is a sequence, *)
(* the per-source arrays are functions over 0..N-1.                        *)
(***************************************************************************)
EXTENDS Integers, Sequences, FiniteSets, TLC

VARIABLES
    pc,               \* position of the operation under way
    \* dns_records_match
    m_a, m_b, m_ret,
    \* address_from_txt_record
    t_kind, t_prefix, t_x, t_s, t_out,
    \* addresses_from_url / get_account_address_as_str_from_url
    url, l_engine, dnssec_available, dnssec_isvalid, dnssec_valid,
    oa_addr, l_records, addresses, confirm_log, ret, queries, uninit,
    \* load_txt_records_from_dns
    dns_urls, engine, first_index, cur_index, records, avail, valid,
    good_records, retval, visits, sub_n, tpc, tlocal, writers

matchVars  == <<m_a, m_b, m_ret>>
addrVars   == <<t_kind, t_prefix, t_x, t_s, t_out>>
lookupVars == <<url, l_engine, dnssec_available, dnssec_isvalid, dnssec_valid,
                oa_addr, l_records, addresses, confirm_log, ret, queries,
                uninit>>
quorumVars == <<dns_urls, engine, first_index, cur_index, records, avail, valid,
                good_records, retval, visits, sub_n, tpc, tlocal, writers>>
vars == <<pc, matchVars, addrVars, lookupVars, quorumVars>>

-----------------------------------------------------------------------------
(* Bounds of the model *)

\* largest number of configured hostnames (dns_urls.size())
MaxHosts == 3
\* largest number of resource records in one answer of an address lookup
MaxRecords == 2
\* longest record sequence handed to dns_records_match on its own
MaxMatchLen == 3

(* Program constants *)

\* length of a standard address
AddrLen == 95
\* length of an integrated address
IntegratedAddrLen == 106
\* strlen("recipient_address=")
KeyLen == 18

npos == -1

-----------------------------------------------------------------------------
(* Strings *)

OA1  == <<"o","a","1",":","x","m","r">>
KEY  == <<"r","e","c","i","p","i","e","n","t","_","a","d","d","r","e","s","s","=">>
SEMI == <<";">>
AT   == <<"@">>

Range(q) == {q[i] : i \in 1..Len(q)}

\* s.compare(pos, pat.size(), pat) == 0, pos 0-based
MatchAt(s, pat, pos) ==
    /\ pos + Len(pat) <= Len(s)
    /\ \A k \in 1..Len(pat) : s[pos + k] = pat[k]

\* std::string::find(pat, pos): the first position >= pos where pat occurs,
\* npos when there is none
Find(s, pat, pos) ==
    LET hits == {i \in pos..(Len(s) - Len(pat)) : MatchAt(s, pat, i)}
    IN  IF hits = {} THEN npos
        ELSE CHOOSE i \in hits : \A k \in hits : i <= k

\* std::string::substr(pos, n), pos <= size
Substr(s, pos, n) ==
    SubSeq(s, pos + 1, IF pos + n > Len(s) THEN Len(s) ELSE pos + n)

\* the sequences over S of length at most n
SeqsUpTo(S, n) == UNION {[1..k -> S] : k \in 0..n}

\* n copies of the character c
Fill(c, n) == [i \in 1..n |-> c]

-----------------------------------------------------------------------------
(* RecordDecoder and the resolver *)

\* txt_to_string: no value for an empty payload, else the payload without
\* its leading length byte.  "no value" is the pair <<FALSE, _>>.
txt_to_string(src) ==
    IF Len(src) = 0 THEN <<FALSE, <<>>>> ELSE <<TRUE, Tail(src)>>

\* check_address_syntax: strchr(addr, '.') != NULL
check_address_syntax(addr) == \E i \in 1..Len(addr) : addr[i] = "."

\* the loop of get_record over result->data: every payload the reader
\* decodes is pushed, in order; the others are skipped
RECURSIVE ReadAll(_)
ReadAll(data) ==
    IF data = <<>> THEN <<>>
    ELSE LET res == txt_to_string(Head(data))
         IN  (IF res[1] THEN <<res[2]>> ELSE <<>>) \o ReadAll(Tail(data))

\* the first two statements of get_record: both flags are set to false
ResetFlagsSkipped(av0, va0) == [avail |-> av0, valid |-> va0]
ResetFlags(av0, va0) == [avail |-> FALSE, valid |-> FALSE]

\* DNSResolver::get_record with the TXT reader.  ans is what ub_resolve
\* would answer for the name: [rc, secure, bogus, havedata, data].  av0 and
\* va0 are the values the two flag variables hold when the call is made.
\* queried tells whether ub_resolve was called.
get_record(name, ans, av0, va0) ==
    LET f0 == ResetFlags(av0, va0)
    IN  IF ~check_address_syntax(name)
        THEN [addresses |-> <<>>, avail |-> f0.avail, valid |-> f0.valid,
              queried |-> FALSE]
        ELSE IF ans.rc # 0
        THEN [addresses |-> <<>>, avail |-> f0.avail, valid |-> f0.valid,
              queried |-> TRUE]
        ELSE [addresses |-> IF ans.havedata THEN ReadAll(ans.data) ELSE <<>>,
              avail     |-> ans.secure \/ ans.bogus,
              valid     |-> ans.secure /\ ~ans.bogus,
              queried   |-> TRUE]

\* get_dns_format_from_oa_address: the first '@' becomes '.'
get_dns_format_from_oa_address(oa) ==
    LET first_at == Find(oa, AT, 0)
    IN  IF first_at = npos THEN oa
        ELSE [i \in 1..Len(oa) |-> IF i = first_at + 1 THEN "." ELSE oa[i]]

-----------------------------------------------------------------------------
(* AddressExtractor *)

address_from_txt_record_off_by_one(s) ==
    LET pos == Find(s, OA1, 0)
    IN  IF pos = npos THEN <<>>
        ELSE LET kpos == Find(s, KEY, pos)
             IN  IF kpos = npos THEN <<>>
                 ELSE LET start == kpos + KeyLen - 1
                          pos2  == Find(s, SEMI, start)
                      IN  IF pos2 # npos /\ pos2 - start = AddrLen
                          THEN Substr(s, start, AddrLen)
                          ELSE IF pos2 # npos /\ pos2 - start = IntegratedAddrLen
                          THEN Substr(s, start, IntegratedAddrLen)
                          ELSE <<>>

address_from_txt_record(s) ==
    LET pos == Find(s, OA1, 0)
    IN  IF pos = npos THEN <<>>
        ELSE LET kpos == Find(s, KEY, pos)
             IN  IF kpos = npos THEN <<>>
                 ELSE LET start == kpos + KeyLen
                          pos2  == Find(s, SEMI, start)
                      IN  IF pos2 # npos /\ pos2 - start = AddrLen
                          THEN Substr(s, start, AddrLen)
                          ELSE IF pos2 # npos /\ pos2 - start = IntegratedAddrLen
                          THEN Substr(s, start, IntegratedAddrLen)
                          ELSE <<>>

-----------------------------------------------------------------------------
(* Quorum helpers *)

\* dns_records_match: equal sizes, and every record of a is found in b
dns_records_match(a, b) ==
    /\ Len(a) = Len(b)
    /\ \A i \in 1..Len(a) : \E j \in 1..Len(b) : a[i] = b[j]

-----------------------------------------------------------------------------
(* Values of the variables an operation does not use *)

MatchIdle  == m_a = <<>> /\ m_b = <<>> /\ m_ret = FALSE
AddrIdle   == t_kind = "" /\ t_prefix = <<>> /\ t_x = <<>> /\ t_s = <<>> /\ t_out = <<>>
LookupIdle ==
    /\ url = <<>> /\ l_engine = <<>> /\ dnssec_available = FALSE
    /\ dnssec_isvalid = FALSE /\ dnssec_valid = FALSE /\ oa_addr = <<>>
    /\ l_records = <<>> /\ addresses = <<>> /\ confirm_log = <<>>
    /\ ret = <<>> /\ queries = 0 /\ uninit = <<>>
QuorumIdle ==
    /\ dns_urls = <<>> /\ engine = <<>> /\ first_index = 0 /\ cur_index = 0
    /\ records = <<>> /\ avail = <<>> /\ valid = <<>> /\ good_records = <<>>
    /\ retval = "none" /\ visits = <<>> /\ sub_n = 0 /\ tpc = <<>>
    /\ tlocal = <<>> /\ writers = <<>>

-----------------------------------------------------------------------------
(* dns_records_match applied to two record sequences *)

RecordA == <<"a">>
RecordB == <<"b">>

MatchInit ==
    /\ pc = "match"
    /\ m_a \in SeqsUpTo({RecordA, RecordB}, MaxMatchLen)
    /\ m_b \in SeqsUpTo({RecordA, RecordB}, MaxMatchLen)
    /\ m_ret = FALSE
    /\ AddrIdle /\ LookupIdle /\ QuorumIdle

DoMatch ==
    /\ pc = "match"
    /\ m_ret' = dns_records_match(m_a, m_b)
    /\ pc' = "done"
    /\ UNCHANGED <<m_a, m_b, addrVars, lookupVars, quorumVars>>

MatchNext == DoMatch
SpecMatch == MatchInit /\ [][MatchNext]_vars

-----------------------------------------------------------------------------
(* address_from_txt_record applied to one TXT text *)

SPF == <<"v","=","s","p","f","1"," ">>

\* what precedes the marker
TxtPrefixes ==
    { <<>>, SPF, OA1 \o <<" ">>, OA1 \o <<" ">> \o KEY \o <<"x",";"," ">> }

\* the text X at the place of the address: plain texts of the lengths around
\* the two accepted ones, and two texts that hold a ';'
TxtXs ==
    { Fill("A", n) : n \in {0, 1, AddrLen - 1, AddrLen, AddrLen + 1,
                            IntegratedAddrLen - 1, IntegratedAddrLen,
                            IntegratedAddrLen + 1} }
    \cup { Fill("A", 10) \o SEMI \o Fill("A", AddrLen - 11),
           Fill("A", AddrLen) \o SEMI \o Fill("A", 3) }

TxtKinds == {"full", "nomarker", "nokey", "noterm"}

BuildTxt(kind, prefix, x) ==
    CASE kind = "full"     -> prefix \o OA1 \o <<" ">> \o KEY \o x \o SEMI
      [] kind = "nomarker" -> prefix \o <<" ">> \o KEY \o x \o SEMI
      [] kind = "nokey"    -> prefix \o OA1 \o <<" ">> \o x \o SEMI
      [] kind = "noterm"   -> prefix \o OA1 \o <<" ">> \o KEY \o x

AddrInit ==
    /\ pc = "parse"
    /\ t_kind \in TxtKinds
    /\ t_prefix \in TxtPrefixes
    /\ t_x \in TxtXs
    /\ t_s = BuildTxt(t_kind, t_prefix, t_x)
    /\ t_out = <<>>
    /\ MatchIdle /\ LookupIdle /\ QuorumIdle

DoParse ==
    /\ pc = "parse"
    /\ t_out' = address_from_txt_record(t_s)
    /\ pc' = "done"
    /\ UNCHANGED <<t_kind, t_prefix, t_x, t_s, matchVars, lookupVars, quorumVars>>

AddrNext == DoParse
SpecAddr == AddrInit /\ [][AddrNext]_vars

-----------------------------------------------------------------------------
(* What the resolver engine may answer *)

\* the wire form of a TXT text: a length byte, then the text
Raw(t) == <<"#">> \o t

\* (secure, bogus) as ub_resolve reports them: secure, bogus, unsigned
Verdicts == {<<TRUE, FALSE>>, <<FALSE, TRUE>>, <<FALSE, FALSE>>}

\* ub_resolve returned non-zero: the result is not read
EngineFail ==
    [rc |-> 1, secure |-> FALSE, bogus |-> FALSE, havedata |-> FALSE, data |-> <<>>]

Answer(v, d) ==
    [rc |-> 0, secure |-> v[1], bogus |-> v[2], havedata |-> d # <<>>, data |-> d]

EngineAnswers(datas) ==
    {EngineFail} \cup {Answer(v, d) : v \in Verdicts, d \in datas}

-----------------------------------------------------------------------------
(* addresses_from_url and get_account_address_as_str_from_url *)

Identifiers ==
    { <<"a","@","b",".","c">>, <<"a","@","b">>, <<"a","b">>, <<"a",".","b">> }

TxtGood95  == BuildTxt("full", <<>>, Fill("A", AddrLen))
TxtGood106 == BuildTxt("full", SPF, Fill("B", IntegratedAddrLen))
TxtShort   == BuildTxt("full", <<>>, Fill("C", AddrLen - 1))

\* the payloads of one answer; the empty payload is one txt_to_string rejects
LookupPayloads == {Raw(TxtGood95), Raw(TxtGood106), Raw(TxtShort), Raw(SPF), <<>>}

\* the loop of addresses_from_url over the records
RECURSIVE CollectAddresses(_)
CollectAddresses(recs) ==
    IF recs = <<>> THEN <<>>
    ELSE LET addr == address_from_txt_record(Head(recs))
         IN  (IF Len(addr) # 0 THEN <<addr>> ELSE <<>>)
             \o CollectAddresses(Tail(recs))

\* the trust flag addresses_from_url hands back; prior is the caller's value
TrustFlagKeptWhenUntrusted(av, va, prior) == IF av /\ va THEN TRUE ELSE prior
TrustFlag(av, va, prior) == IF av /\ va THEN TRUE ELSE FALSE

\* addresses.empty() in get_account_address_as_str_from_url
NoCandidatesIgnored(addrs) == FALSE
NoCandidates(addrs) == addrs = <<>>

\* what the confirmation callback may answer
ConfirmAnswers(addrs) == {<<>>, <<"n","o">>} \cup Range(addrs)

LookupInit ==
    /\ pc = "format"
    /\ url \in Identifiers
    /\ l_engine \in EngineAnswers(SeqsUpTo(LookupPayloads, MaxRecords))
    /\ uninit \in BOOLEAN \X BOOLEAN
    /\ dnssec_available = uninit[1]
    /\ dnssec_isvalid = uninit[2]
    /\ dnssec_valid \in BOOLEAN
    /\ oa_addr = <<>> /\ l_records = <<>> /\ addresses = <<>>
    /\ confirm_log = <<>> /\ ret = <<>> /\ queries = 0
    /\ MatchIdle /\ AddrIdle /\ QuorumIdle

LookupFormat ==
    /\ pc = "format"
    /\ oa_addr' = get_dns_format_from_oa_address(url)
    /\ pc' = "resolve"
    /\ UNCHANGED <<url, l_engine, dnssec_available, dnssec_isvalid, dnssec_valid,
                   l_records, addresses, confirm_log, ret, queries, uninit,
                   matchVars, addrVars, quorumVars>>

LookupResolve ==
    /\ pc = "resolve"
    /\ LET r == get_record(oa_addr, l_engine, dnssec_available, dnssec_isvalid)
       IN  /\ l_records' = r.addresses
           /\ dnssec_available' = r.avail
           /\ dnssec_isvalid' = r.valid
           /\ queries' = IF r.queried THEN queries + 1 ELSE queries
    /\ pc' = "extract"
    /\ UNCHANGED <<url, l_engine, dnssec_valid, oa_addr, addresses, confirm_log,
                   ret, uninit, matchVars, addrVars, quorumVars>>

LookupExtract ==
    /\ pc = "extract"
    /\ dnssec_valid' = TrustFlag(dnssec_available, dnssec_isvalid, dnssec_valid)
    /\ addresses' = CollectAddresses(l_records)
    /\ pc' = "return"
    /\ UNCHANGED <<url, l_engine, dnssec_available, dnssec_isvalid, oa_addr,
                   l_records, confirm_log, ret, queries, uninit,
                   matchVars, addrVars, quorumVars>>

LookupReturnEmpty ==
    /\ pc = "return"
    /\ NoCandidates(addresses)
    /\ ret' = <<>>
    /\ pc' = "done"
    /\ UNCHANGED <<url, l_engine, dnssec_available, dnssec_isvalid, dnssec_valid,
                   oa_addr, l_records, addresses, confirm_log, queries, uninit,
                   matchVars, addrVars, quorumVars>>

LookupConfirm ==
    /\ pc = "return"
    /\ ~NoCandidates(addresses)
    /\ \E answer \in ConfirmAnswers(addresses) :
          /\ confirm_log' = Append(confirm_log,
                 [url |-> url, addresses |-> addresses,
                  dnssec_valid |-> dnssec_valid, answer |-> answer])
          /\ ret' = answer
    /\ pc' = "done"
    /\ UNCHANGED <<url, l_engine, dnssec_available, dnssec_isvalid, dnssec_valid,
                   oa_addr, l_records, addresses, queries, uninit,
                   matchVars, addrVars, quorumVars>>

LookupNext ==
    \/ LookupFormat
    \/ LookupResolve
    \/ LookupExtract
    \/ LookupReturnEmpty
    \/ LookupConfirm

SpecLookup == LookupInit /\ [][LookupNext]_vars

-----------------------------------------------------------------------------
(* load_txt_records_from_dns *)

\* dns_urls.size()
N == Cardinality(DOMAIN dns_urls)
Slots == 0..(N - 1)

HostDotted == <<"u",".","x">>
HostNoDot  == <<"u","x">>

\* good_records as the caller passes it in
OldRecords == <<<<"o","l","d">>>>

\* the payloads a secure answer may hold, and an answer that is not secure
TrustedData ==
    { <<>>, <<Raw(RecordA)>>, <<Raw(RecordA), Raw(RecordB)>>,
      <<Raw(RecordB), Raw(RecordA)>>, <<Raw(RecordA), Raw(RecordA)>> }
UntrustedData == { <<>>, <<Raw(RecordA)>>, <<Raw(RecordA), Raw(RecordB)>> }

QuorumAnswers ==
    {EngineFail}
    \cup {Answer(<<TRUE, FALSE>>, d) : d \in TrustedData}
    \cup {Answer(v, d) : v \in {<<FALSE, TRUE>>, <<FALSE, FALSE>>}, d \in UntrustedData}

FanoutAnswers ==
    { EngineFail, Answer(<<TRUE, FALSE>>, <<Raw(RecordA)>>),
      Answer(<<TRUE, FALSE>>, <<Raw(RecordB)>>),
      Answer(<<FALSE, TRUE>>, <<Raw(RecordA)>>) }

\* the body of the clearing loop for one source
ClearOneAvailOnly(recs, av, va, idx) ==
    IF ~av[idx] THEN [recs EXCEPT ![idx] = <<>>] ELSE recs
ClearOne(recs, av, va, idx) ==
    IF ~av[idx] \/ ~va[idx] THEN [recs EXCEPT ![idx] = <<>>] ELSE recs

\* cur_index++ with the wrap to 0 at dns_urls.size()
NextIndex(cur, size) == IF cur + 1 = size THEN 0 ELSE cur + 1

\* the condition of the do-while
LoopUntilZero(cur, first) == cur # 0
LoopAgain(cur, first) == cur # first

\* the clearing pass from cur on, as one function of the arrays
RECURSIVE ClearFrom(_, _, _, _, _, _)
ClearFrom(recs, av, va, cur, first, size) ==
    LET cleared == ClearOne(recs, av, va, cur)
        nxt     == NextIndex(cur, size)
    IN  IF LoopAgain(nxt, first)
        THEN ClearFrom(cleared, av, va, nxt, first, size)
        ELSE cleared

\* the whole do-while, started at first
ClearPass(recs, av, va, first, size) == ClearFrom(recs, av, va, first, first, size)

\* the search for good_records_index: the first i with a non-empty record
\* set that some later j matches; -1 when there is none
FindGoodIndex(recs, size) ==
    LET hits == {i \in 0..(size - 2) :
                    /\ Len(recs[i]) # 0
                    /\ \E j \in (i + 1)..(size - 1) :
                          dns_records_match(recs[i], recs[j])}
    IN  IF hits = {} THEN -1
        ELSE CHOOSE i \in hits : \A k \in hits : i <= k

\* the single-hostname branch
SingleHostRejects(recs, good) == [ret |-> FALSE, good |-> good]
SingleHost(recs, good) == [ret |-> TRUE, good |-> recs[0]]

\* load_txt_records_from_dns after the clearing pass: the return value and
\* good_records (good is good_records as passed in)
QuorumOutcome(recs, size, good) ==
    LET num_valid_records == Cardinality({n \in 0..(size - 1) : Len(recs[n]) # 0})
    IN  IF num_valid_records = 0 THEN [ret |-> FALSE, good |-> good]
        ELSE IF size = 1 THEN SingleHost(recs, good)
        ELSE LET good_records_index == FindGoodIndex(recs, size)
             IN  IF good_records_index < 0 THEN [ret |-> FALSE, good |-> good]
                 ELSE [ret |-> TRUE, good |-> recs[good_records_index]]

\* the slot of the arrays task n writes (n is captured by value)
TaskSlotByReference(n) == IF sub_n < N THEN sub_n ELSE N - 1
TaskSlot(n) == n

\* waiter.wait(): returns once every submitted task has run to its end
AllTasksDone == \A n \in Slots : tpc[n] = "done"

QuorumInitWith(hosts, answers) ==
    /\ pc = "call"
    /\ \E size \in 0..MaxHosts : dns_urls \in [0..(size - 1) -> hosts]
    /\ engine \in [DOMAIN dns_urls -> answers]
    /\ \A n \in DOMAIN dns_urls :
          ~check_address_syntax(dns_urls[n]) => engine[n] = EngineFail
    /\ first_index = 0 /\ cur_index = 0
    /\ records = <<>> /\ avail = <<>> /\ valid = <<>>
    /\ good_records = OldRecords
    /\ retval = "none"
    /\ visits = [n \in DOMAIN dns_urls |-> 0]
    /\ sub_n = 0
    /\ tpc = [n \in DOMAIN dns_urls |-> "none"]
    /\ tlocal = [n \in DOMAIN dns_urls |-> <<>>]
    /\ writers = [n \in DOMAIN dns_urls |-> {}]
    /\ MatchIdle /\ AddrIdle /\ LookupIdle

\* dns_urls.empty(): return false
QuorumCallEmpty ==
    /\ pc = "call"
    /\ N = 0
    /\ retval' = FALSE
    /\ pc' = "done"
    /\ UNCHANGED <<dns_urls, engine, first_index, cur_index, records, avail, valid,
                   good_records, visits, sub_n, tpc, tlocal, writers,
                   matchVars, addrVars, lookupVars>>

\* the arrays are sized and the starting index is drawn
QuorumBegin ==
    /\ pc = "call"
    /\ N > 0
    /\ records' = [n \in Slots |-> <<>>]
    /\ avail' = [n \in Slots |-> FALSE]
    /\ valid' = [n \in Slots |-> FALSE]
    /\ first_index' \in Slots
    /\ sub_n' = 0
    /\ pc' = "submit"
    /\ UNCHANGED <<dns_urls, engine, cur_index, good_records, retval, visits,
                   tpc, tlocal, writers, matchVars, addrVars, lookupVars>>

\* tpool.submit of the task for hostname sub_n
Submit ==
    /\ pc = "submit"
    /\ sub_n < N
    /\ tpc' = [tpc EXCEPT ![sub_n] = "queued"]
    /\ sub_n' = sub_n + 1
    /\ UNCHANGED <<pc, dns_urls, engine, first_index, cur_index, records, avail,
                   valid, good_records, retval, visits, tlocal, writers,
                   matchVars, addrVars, lookupVars>>

\* task n runs get_txt_record: the two flags of its slot are written
TaskResolve(n) ==
    /\ tpc[n] = "queued"
    /\ LET k == TaskSlot(n)
           r == get_record(dns_urls[n], engine[n], avail[k], valid[k])
       IN  /\ avail' = [avail EXCEPT ![k] = r.avail]
           /\ valid' = [valid EXCEPT ![k] = r.valid]
           /\ tlocal' = [tlocal EXCEPT ![n] = r.addresses]
           /\ writers' = [writers EXCEPT ![k] = @ \cup {n}]
    /\ tpc' = [tpc EXCEPT ![n] = "resolved"]
    /\ UNCHANGED <<pc, dns_urls, engine, first_index, cur_index, records,
                   good_records, retval, visits, sub_n,
                   matchVars, addrVars, lookupVars>>

\* task n assigns the returned vector to records[n] and ends
TaskStore(n) ==
    /\ tpc[n] = "resolved"
    /\ LET k == TaskSlot(n)
       IN  /\ records' = [records EXCEPT ![k] = tlocal[n]]
           /\ writers' = [writers EXCEPT ![k] = @ \cup {n}]
    /\ tpc' = [tpc EXCEPT ![n] = "done"]
    /\ UNCHANGED <<pc, dns_urls, engine, first_index, cur_index, avail, valid,
                   good_records, retval, visits, sub_n, tlocal,
                   matchVars, addrVars, lookupVars>>

\* waiter.wait() returns; the clearing pass starts at first_index
Wait ==
    /\ pc = "submit"
    /\ sub_n = N
    /\ AllTasksDone
    /\ cur_index' = first_index
    /\ pc' = "clear"
    /\ UNCHANGED <<dns_urls, engine, first_index, records, avail, valid,
                   good_records, retval, visits, sub_n, tpc, tlocal, writers,
                   matchVars, addrVars, lookupVars>>

\* the submit loop, the tasks and the wait taken as one step
QuorumFanOut ==
    /\ pc = "submit"
    /\ LET r == [n \in Slots |->
                    get_record(dns_urls[n], engine[n], avail[n], valid[n])]
       IN  /\ records' = [n \in Slots |-> r[n].addresses]
           /\ avail' = [n \in Slots |-> r[n].avail]
           /\ valid' = [n \in Slots |-> r[n].valid]
           /\ tlocal' = [n \in Slots |-> r[n].addresses]
    /\ writers' = [n \in Slots |-> {n}]
    /\ tpc' = [n \in Slots |-> "done"]
    /\ sub_n' = N
    /\ cur_index' = first_index
    /\ pc' = "clear"
    /\ UNCHANGED <<dns_urls, engine, first_index, good_records, retval, visits,
                   matchVars, addrVars, lookupVars>>

\* one iteration of the do-while
QuorumClearStep ==
    /\ pc = "clear"
    /\ records' = ClearOne(records, avail, valid, cur_index)
    /\ visits' = [visits EXCEPT ![cur_index] = @ + 1]
    /\ cur_index' = NextIndex(cur_index, N)
    /\ pc' = IF LoopAgain(NextIndex(cur_index, N), first_index) THEN "clear" ELSE "eval"
    /\ UNCHANGED <<dns_urls, engine, first_index, avail, valid, good_records,
                   retval, sub_n, tpc, tlocal, writers,
                   matchVars, addrVars, lookupVars>>

\* the count, the single-hostname branch and the search for a matching pair
QuorumEvaluate ==
    /\ pc = "eval"
    /\ LET o == QuorumOutcome(records, N, good_records)
       IN  /\ retval' = o.ret
           /\ good_records' = o.good
    /\ pc' = "done"
    /\ UNCHANGED <<dns_urls, engine, first_index, cur_index, records, avail, valid,
                   visits, sub_n, tpc, tlocal, writers,
                   matchVars, addrVars, lookupVars>>

Init == QuorumInitWith({HostDotted}, QuorumAnswers)

Next ==
    \/ QuorumCallEmpty
    \/ QuorumBegin
    \/ QuorumFanOut
    \/ QuorumClearStep
    \/ QuorumEvaluate

Spec == Init /\ [][Next]_vars

FanoutInit == QuorumInitWith({HostDotted, HostNoDot}, FanoutAnswers)

FanoutNext ==
    \/ QuorumCallEmpty
    \/ QuorumBegin
    \/ Submit
    \/ \E n \in Slots : TaskResolve(n)
    \/ \E n \in Slots : TaskStore(n)
    \/ Wait
    \/ QuorumClearStep
    \/ QuorumEvaluate

SpecFanout == FanoutInit /\ [][FanoutNext]_vars

-----------------------------------------------------------------------------
(* Properties of dns_records_match, under SpecMatch *)

\* equal as sets: the same cardinality, and every record of one appears in
\* the other
EqualAsSets(a, b) == Len(a) = Len(b) /\ Range(a) = Range(b)

\* C3: dns_records_match(a, b) is true exactly when a and b are equal as
\* sets, and the answer for (a, b) is the answer for (b, a), duplicates
\* included.
C3_MatchIsSetEquality ==
    pc = "done" =>
        /\ m_ret = EqualAsSets(m_a, m_b)
        /\ m_ret = dns_records_match(m_b, m_a)

-----------------------------------------------------------------------------
(* Properties of address_from_txt_record, under SpecAddr *)

OccursAt(s, pat, i) ==
    i + Len(pat) <= Len(s) /\ SubSeq(s, i + 1, i + Len(pat)) = pat
Positions(s, pat) == {i \in 0..Len(s) : OccursAt(s, pat, i)}
Least(S) == CHOOSE i \in S : \A k \in S : i <= k

MarkerMissing(s) == Positions(s, OA1) = {}
\* the keys at or after the first marker
KeysAfterMarker(s) ==
    {k \in Positions(s, KEY) : k >= Least(Positions(s, OA1))}
KeyMissing(s) == ~MarkerMissing(s) /\ KeysAfterMarker(s) = {}
TerminatorMissing(s) ==
    /\ ~MarkerMissing(s) /\ ~KeyMissing(s)
    /\ \A i \in Positions(s, SEMI) : i < Least(KeysAfterMarker(s)) + Len(KEY)
Malformed(s) == MarkerMissing(s) \/ KeyMissing(s) \/ TerminatorMissing(s)

AcceptedLength(x) == Len(x) = AddrLen \/ Len(x) = IntegratedAddrLen

\* C9 as stated: for every text prefix + "oa1:xmr recipient_address=" + X + ";"
\* the output is X when X has length 95 or 106 and empty for any other
\* length, and a text with a missing marker, key or terminator gives the
\* empty output.
C9_StrictFormatAnyText ==
    pc = "done" =>
        /\ t_kind = "full" =>
               t_out = IF AcceptedLength(t_x) THEN t_x ELSE <<>>
        /\ Malformed(t_s) => t_out = <<>>

\* no "recipient_address=" of the prefix lies at or after an "oa1:xmr" of it
PrefixClean(prefix) ==
    \A m \in Positions(prefix, OA1) : \A k \in Positions(prefix, KEY) : k < m

\* C9 amended: the same, for the texts whose X holds no ';' and whose prefix
\* holds no "recipient_address=" at or after an "oa1:xmr".
C9_StrictFormat ==
    pc = "done" =>
        /\ (t_kind = "full" /\ ";" \notin Range(t_x) /\ PrefixClean(t_prefix)) =>
               t_out = IF AcceptedLength(t_x) THEN t_x ELSE <<>>
        /\ Malformed(t_s) => t_out = <<>>

C9_Witness ==
    /\ pc = "done" /\ t_kind = "full" /\ t_prefix = SPF
    /\ Len(t_x) = IntegratedAddrLen /\ ";" \notin Range(t_x)
    /\ t_out = t_x

-----------------------------------------------------------------------------
(* Properties of the address lookup, under SpecLookup *)

\* the addresses of the records that hold one, in the records' order
Candidates(recs) ==
    SelectSeq([i \in 1..Len(recs) |-> address_from_txt_record(recs[i])],
              LAMBDA x : x # <<>>)

Resolved == pc \in {"extract", "return", "done"}
Untrusted == ~dnssec_available \/ ~dnssec_isvalid

\* C5 as stated: a lookup whose resolution is not DNSSEC-available or not
\* DNSSEC-valid ends with an empty candidate list and a false trust flag,
\* and nothing reaches the confirmation callback.
C5_UntrustedYieldsNothing ==
    (pc = "done" /\ Untrusted) =>
        /\ addresses = <<>>
        /\ dnssec_valid = FALSE
        /\ confirm_log = <<>>

\* C5 amended: such a lookup ends with a false trust flag; its candidate
\* list is every address the returned records hold, and when there is one
\* the callback receives the candidates together with the false flag.
C5_UntrustedYieldsFalseFlag ==
    (pc = "done" /\ Untrusted) =>
        /\ dnssec_valid = FALSE
        /\ addresses = Candidates(l_records)
        /\ addresses # <<>> =>
               /\ Len(confirm_log) = 1
               /\ confirm_log[1].addresses = addresses
               /\ confirm_log[1].dnssec_valid = FALSE

C5_Witness ==
    /\ pc = "done" /\ Untrusted /\ queries = 1
    /\ Len(addresses) = 2 /\ Len(confirm_log) = 1
    /\ dnssec_valid = FALSE

\* C7: the callback is invoked at most once; with no candidate the lookup
\* returns the empty string and the callback is not invoked; otherwise it
\* is invoked once with the identifier, the candidates in the resolver's
\* order (duplicates kept) and the trust flag, and its answer is returned.
C7_CallbackAtMostOnce ==
    /\ Len(confirm_log) <= 1
    /\ pc # "done" => confirm_log = <<>>
    /\ pc = "done" =>
          IF Candidates(l_records) = <<>>
          THEN ret = <<>> /\ confirm_log = <<>>
          ELSE /\ Len(confirm_log) = 1
               /\ confirm_log[1].url = url
               /\ confirm_log[1].addresses = Candidates(l_records)
               /\ confirm_log[1].dnssec_valid = dnssec_valid
               /\ ret = confirm_log[1].answer

C7_Witness ==
    /\ pc = "done" /\ Len(confirm_log) = 1
    /\ Len(l_records) = MaxRecords
    /\ confirm_log[1].addresses = <<Fill("A", AddrLen), Fill("A", AddrLen)>>
    /\ "@" \in Range(url)
    /\ ret = Fill("A", AddrLen)

\* C8: get_record fails closed.  For a name without a dot the records are
\* empty, both flags are false and the engine is not queried; when the
\* engine's call fails the records are empty and both flags are false,
\* whatever the flag variables held before.
C8_ResolveFailsClosed ==
    Resolved =>
        /\ "." \notin Range(oa_addr) =>
               /\ l_records = <<>> /\ ~dnssec_available /\ ~dnssec_isvalid
               /\ queries = 0
        /\ ("." \in Range(oa_addr) /\ l_engine.rc # 0) =>
               /\ l_records = <<>> /\ ~dnssec_available /\ ~dnssec_isvalid

C8_Witness ==
    /\ pc = "extract" /\ "." \in Range(oa_addr) /\ l_engine.rc # 0
    /\ uninit = <<TRUE, TRUE>> /\ queries = 1
    /\ l_records = <<>> /\ ~dnssec_available /\ ~dnssec_isvalid

-----------------------------------------------------------------------------
(* Properties of load_txt_records_from_dns, under Spec and SpecFanout *)

\* what get_txt_record returns for source n
Returned(n) == get_record(dns_urls[n], engine[n], FALSE, FALSE)
RawRecords == [n \in Slots |-> Returned(n).addresses]
SourceUntrusted(n) == ~avail[n] \/ ~valid[n]
\* the record sets that count: those of the trusted sources
Evidence == [n \in Slots |-> IF SourceUntrusted(n) THEN <<>> ELSE RawRecords[n]]
Outcome == [ret |-> retval, good |-> good_records]

\* the pairs i < j of sources with non-empty record sets that are equal as sets
AgreeingPairs ==
    {p \in Slots \X Slots :
        /\ p[1] < p[2]
        /\ records[p[1]] # <<>> /\ records[p[2]] # <<>>
        /\ EqualAsSets(records[p[1]], records[p[2]])}

\* C1: with more than one hostname the call accepts exactly when, after the
\* clearing, two distinct sources hold non-empty record sets that are equal
\* as sets, and then returns the record set of the first such pair.
C1_AcceptsIffSetAgreement ==
    (pc = "done" /\ N > 1) =>
        /\ retval = (AgreeingPairs # {})
        /\ AgreeingPairs # {} =>
               good_records = records[Least({p[1] : p \in AgreeingPairs})]

\* C2 as stated: with one hostname whose result is DNSSEC-valid the call
\* accepts and returns the source's record set, whatever that set is.
C2_SingleValidSourceAccepted ==
    (pc = "done" /\ N = 1 /\ valid[0]) =>
        /\ retval = TRUE
        /\ good_records = RawRecords[0]

\* C2 amended: with one hostname whose result is DNSSEC-valid the call
\* accepts and returns the source's record set unchanged when that set is
\* not empty; when it is empty the call rejects and good_records is left
\* as it was.
C2_SingleValidSource ==
    (pc = "done" /\ N = 1 /\ valid[0]) =>
        IF RawRecords[0] # <<>>
        THEN retval = TRUE /\ good_records = RawRecords[0]
        ELSE retval = FALSE /\ good_records = OldRecords

C2_Witness ==
    /\ pc = "done" /\ N = 1 /\ valid[0]
    /\ retval = TRUE /\ good_records = <<RecordB, RecordA>>

\* the record sets an untrusted source might have returned instead
OtherRecords == {ReadAll(d) : d \in TrustedData}

\* C4: an untrusted source is no evidence.  Its record set is empty when the
\* counting starts; an accepted record set is the one a DNSSEC-available and
\* DNSSEC-valid source returned; and had an untrusted source returned any
\* other records, the result and the returned records would be the same.
C4_UntrustedIsNoEvidence ==
    /\ pc \in {"eval", "done"} =>
           \A n \in Slots : SourceUntrusted(n) => records[n] = <<>>
    /\ (pc = "done" /\ N > 0) =>
           /\ retval = TRUE =>
                  \E n \in Slots :
                      /\ avail[n] /\ valid[n]
                      /\ good_records = RawRecords[n]
           /\ \A n \in Slots : SourceUntrusted(n) =>
                  \A d \in OtherRecords :
                      QuorumOutcome(
                          ClearPass([RawRecords EXCEPT ![n] = d], avail, valid,
                                    first_index, N),
                          N, OldRecords) = Outcome

C4_Witness ==
    /\ pc = "done" /\ retval = TRUE
    /\ \E n \in Slots :
          /\ avail[n] /\ ~valid[n]
          /\ RawRecords[n] # <<>>
          /\ \E k \in Slots : k # n /\ ~SourceUntrusted(k) /\ RawRecords[k] = RawRecords[n]

\* C10: the clearing pass ends after visiting each source exactly once,
\* from every starting index, and the result and the returned records are
\* those every other starting index gives.
C10_StartIndexIrrelevant ==
    /\ \A n \in DOMAIN visits : visits[n] <= 1
    /\ pc \in {"eval", "done"} => \A n \in Slots : visits[n] = 1
    /\ (pc = "done" /\ N > 0) =>
           \A f \in Slots :
               QuorumOutcome(ClearPass(RawRecords, avail, valid, f, N),
                             N, OldRecords) = Outcome

C10_Witness ==
    /\ pc = "done" /\ N >= 3 /\ first_index = N - 1
    /\ retval = TRUE
    /\ \E n \in Slots : n < first_index /\ SourceUntrusted(n) /\ RawRecords[n] # <<>>

\* C6: task n writes slot n only; the clearing and the evaluation start
\* when every task has ended, on fully written slots; and the result is one
\* function of the sources' answers, whatever order the tasks ran in.
C6_DisjointSlotsAndBarrier ==
    /\ \A k \in DOMAIN writers : writers[k] \subseteq {k}
    /\ pc \in {"clear", "eval", "done"} =>
           \A n \in Slots :
               /\ tpc[n] = "done"
               /\ avail[n] = Returned(n).avail
               /\ valid[n] = Returned(n).valid
    /\ (pc = "clear" /\ \A n \in Slots : visits[n] = 0) => records = RawRecords
    /\ (pc = "done" /\ N > 0) => Outcome = QuorumOutcome(Evidence, N, OldRecords)

\* a later task has ended while an earlier one has written its flags only
C6_Witness ==
    /\ pc = "submit" /\ N = 3 /\ sub_n = 3
    /\ tpc[0] = "resolved" /\ tpc[1] = "queued" /\ tpc[2] = "done"
    /\ avail[0] /\ valid[0] /\ records[0] = <<>> /\ tlocal[0] # <<>>
    /\ records[2] # <<>>

====
